---- MODULE Spec2Model ----
(***************************************************************************)
(* A model of the doodle-rs firmware (pico-2w-doodle-rs): the WiFi         *)
(* bring-up, the server loop and the HTTP request handler of               *)
(* networking_task.rs, the byte pipe between the two tasks and the canvas  *)
(* update of display_task.rs; and of the HTTP web client                   *)
(* (webapp-doodle-rs/src/lib.rs): its pending map, its queue processor and *)
(* its clear handler.                                                      *)
(*                                                                         *)
(* Text is modelled by TLA+ strings, read with Len, SubSeq, Head, Tail and *)
(* \o.  A position in a string is 1-based; 0 stands for Rust's None where  *)
(* the code uses Option<usize>.  Any other Option<T> is the empty tuple    *)
(* (None) or a one-element tuple (Some).                                   *)
(***************************************************************************)
EXTENDS Integers, Sequences, FiniteSets, TLC

(***************************************************************************)
(* Program constants.                                                      *)
(***************************************************************************)
CANVAS_SIZE == 48
DISPLAY_OFFSET_Y == 16
PipeCap == 64
ResponseCap == 512
LinesCap == 32
PartsCap == 8
U8Max == 255

(***************************************************************************)
(* core::str helpers, as the standard library computes them.               *)
(***************************************************************************)
Ch(s, i) == SubSeq(s, i, i)

Whitespace == {" ", "\t", "\n", "\f", "\r"}

RECURSIVE trim_start(_)
trim_start(s) ==
    IF Len(s) > 0 /\ Head(s) \in Whitespace THEN trim_start(Tail(s)) ELSE s

RECURSIVE trim_end(_)
trim_end(s) ==
    IF Len(s) > 0 /\ Ch(s, Len(s)) \in Whitespace
    THEN trim_end(SubSeq(s, 1, Len(s) - 1))
    ELSE s

trim(s) == trim_end(trim_start(s))

RECURSIVE trim_start_matches(_, _)
trim_start_matches(s, c) ==
    IF Len(s) > 0 /\ Head(s) = c THEN trim_start_matches(Tail(s), c) ELSE s

RECURSIVE trim_end_matches(_, _)
trim_end_matches(s, c) ==
    IF Len(s) > 0 /\ Ch(s, Len(s)) = c
    THEN trim_end_matches(SubSeq(s, 1, Len(s) - 1), c)
    ELSE s

trim_matches(s, c) == trim_end_matches(trim_start_matches(s, c), c)

\* str::find: the position of the first match, 0 for None.
find(s, pat) ==
    LET matches == {i \in 1 .. Len(s) - Len(pat) + 1 :
                       SubSeq(s, i, i + Len(pat) - 1) = pat}
    IN  IF matches = {} THEN 0
        ELSE CHOOSE i \in matches : \A j \in matches : i <= j

\* One line of str::lines: the trailing "\r" of a "\r\n" ending is stripped.
strip_cr(s) ==
    IF Len(s) > 0 /\ Ch(s, Len(s)) = "\r" THEN SubSeq(s, 1, Len(s) - 1) ELSE s

RECURSIVE lines(_)
lines(s) ==
    IF s = "" THEN <<>>
    ELSE LET p == find(s, "\n") IN
         IF p = 0 THEN <<s>>
         ELSE <<strip_cr(SubSeq(s, 1, p - 1))>> \o lines(SubSeq(s, p + 1, Len(s)))

RECURSIVE token_len(_)
token_len(s) ==
    IF s = "" \/ Head(s) \in Whitespace THEN 0 ELSE 1 + token_len(Tail(s))

RECURSIVE split_whitespace(_)
split_whitespace(s) ==
    LET t == trim_start(s) IN
    IF t = "" THEN <<>>
    ELSE LET n == token_len(t) IN
         <<SubSeq(t, 1, n)>> \o split_whitespace(SubSeq(t, n + 1, Len(t)))

RECURSIVE split(_, _)
split(s, c) ==
    LET p == find(s, c) IN
    IF p = 0 THEN <<s>>
    ELSE <<SubSeq(s, 1, p - 1)>> \o split(SubSeq(s, p + 1, Len(s)), c)

DecimalDigits == "0123456789"

\* The value of a decimal digit character, -1 for any other character.
DigitVal(c) == find(DecimalDigits, c) - 1

\* The checked accumulation of u8::from_str: None on a non-digit or on overflow.
RECURSIVE parse_digits(_, _)
parse_digits(s, acc) ==
    IF s = "" THEN <<acc>>
    ELSE LET d == DigitVal(Head(s)) IN
         IF d < 0 \/ acc * 10 + d > U8Max THEN <<>>
         ELSE parse_digits(Tail(s), acc * 10 + d)

\* str::parse::<u8>: an optional "+", then at least one digit, at most 255.
parse_u8(s) ==
    LET digits == IF Len(s) > 0 /\ Head(s) = "+" THEN Tail(s) ELSE s IN
    IF digits = "" THEN <<>> ELSE parse_digits(digits, 0)

\* str::parse::<bool>: exactly "true" or "false".
parse_bool(s) ==
    IF s = "true" THEN <<TRUE>> ELSE IF s = "false" THEN <<FALSE>> ELSE <<>>

(***************************************************************************)
(* networking_task.rs: the JSON scanner and the response builder.          *)
(***************************************************************************)
NoFields == [x |-> <<>>, y |-> <<>>, state |-> <<>>]

scan_pair(pair0, acc) ==
    LET pair == trim(pair0)
        colon_pos == find(pair, ":")
    IN  IF colon_pos = 0 THEN acc
        ELSE LET key == trim_matches(trim(SubSeq(pair, 1, colon_pos - 1)), "\"")
                 value == trim(SubSeq(pair, colon_pos + 1, Len(pair)))
             IN  IF key = "x" THEN [acc EXCEPT !.x = parse_u8(value)]
                 ELSE IF key = "y" THEN [acc EXCEPT !.y = parse_u8(value)]
                 ELSE IF key = "state" THEN [acc EXCEPT !.state = parse_bool(value)]
                 ELSE acc

RECURSIVE scan_pairs(_, _)
scan_pairs(pairs, acc) ==
    IF pairs = <<>> THEN acc
    ELSE scan_pairs(Tail(pairs), scan_pair(Head(pairs), acc))

\* Mutant: the fields x and y exchanged in the PixelRequest.
parse_pixel_request_swapped(json) ==
    LET cleaned == trim_end_matches(trim_start_matches(trim(json), "{"), "}")
        f == scan_pairs(split(cleaned, ","), NoFields)
    IN  IF f.x # <<>> /\ f.y # <<>> /\ f.state # <<>>
        THEN IF f.x[1] < CANVAS_SIZE /\ f.y[1] < CANVAS_SIZE
             THEN <<[x |-> f.y[1], y |-> f.x[1], state |-> f.state[1]]>>
             ELSE <<>>
        ELSE <<>>

\* Mutant: no bounds check on the coordinates.
parse_pixel_request_unchecked(json) ==
    LET cleaned == trim_end_matches(trim_start_matches(trim(json), "{"), "}")
        f == scan_pairs(split(cleaned, ","), NoFields)
    IN  IF f.x # <<>> /\ f.y # <<>> /\ f.state # <<>>
        THEN <<[x |-> f.x[1], y |-> f.y[1], state |-> f.state[1]]>>
        ELSE <<>>

\* Err(()) is <<>>, Ok(PixelRequest) is a one-element tuple.
parse_pixel_request(json) ==
    LET cleaned == trim_end_matches(trim_start_matches(trim(json), "{"), "}")
        f == scan_pairs(split(cleaned, ","), NoFields)
    IN  IF f.x # <<>> /\ f.y # <<>> /\ f.state # <<>>
        THEN IF f.x[1] < CANVAS_SIZE /\ f.y[1] < CANVAS_SIZE
             THEN <<[x |-> f.x[1], y |-> f.y[1], state |-> f.state[1]]>>
             ELSE <<>>
        ELSE <<>>

\* None is <<>>, Some(body) is a one-element tuple.
extract_json_body(request) ==
    LET body_start == find(request, "\r\n\r\n") IN
    IF body_start # 0
    THEN LET body == SubSeq(request, body_start + 4, Len(request)) IN
         IF trim(body) # "" THEN <<trim(body)>> ELSE <<>>
    ELSE <<>>

\* heapless::String<512>::push_str: all of s, or nothing when it does not fit.
push_str(response, s) ==
    IF Len(response) + Len(s) <= ResponseCap THEN response \o s ELSE response

\* The digits of n > 0, least significant first, as the while loop extracts them.
RECURSIVE extract_digits(_)
extract_digits(n) ==
    IF n = 0 THEN <<>> ELSE <<n % 10>> \o extract_digits(n \div 10)

DigitChar(d) == Ch(DecimalDigits, d + 1)

\* Mutant: the digits pushed in the order they were extracted.
RECURSIVE push_digits_fwd(_, _)
push_digits_fwd(response, digits) ==
    IF digits = <<>> THEN response
    ELSE push_digits_fwd(push_str(response, DigitChar(digits[1])), Tail(digits))

\* for i in (0..digit_count).rev(): the digits pushed most significant first.
RECURSIVE push_digits_rev(_, _)
push_digits_rev(response, digits) ==
    IF digits = <<>> THEN response
    ELSE push_digits_rev(push_str(response, DigitChar(digits[Len(digits)])),
                         SubSeq(digits, 1, Len(digits) - 1))

push_content_length(response, body_len) ==
    IF body_len = 0 THEN push_str(response, "0")
    ELSE push_digits_rev(response, extract_digits(body_len))

StatusLine == "HTTP/1.1 200 OK\r\n"
CorsOriginHeader == "Access-Control-Allow-Origin: *\r\n"

\* Mutant: the Access-Control-Allow-Origin header left out.
response_head_no_origin ==
    LET r1 == push_str("", StatusLine)
        r3 == push_str(r1, "Access-Control-Allow-Methods: GET, POST, OPTIONS\r\n")
        r4 == push_str(r3, "Access-Control-Allow-Headers: Content-Type\r\n")
        r5 == push_str(r4, "Connection: close\r\n")
        r6 == push_str(r5, "Content-Type: text/plain\r\n")
    IN  push_str(r6, "Content-Length: ")

response_head ==
    LET r1 == push_str("", StatusLine)
        r2 == push_str(r1, CorsOriginHeader)
        r3 == push_str(r2, "Access-Control-Allow-Methods: GET, POST, OPTIONS\r\n")
        r4 == push_str(r3, "Access-Control-Allow-Headers: Content-Type\r\n")
        r5 == push_str(r4, "Connection: close\r\n")
        r6 == push_str(r5, "Content-Type: text/plain\r\n")
    IN  push_str(r6, "Content-Length: ")

build_simple_response(body) ==
    LET r1 == push_content_length(response_head, Len(body))
        r2 == push_str(r1, "\r\n\r\n")
    IN  push_str(r2, body)


(***************************************************************************)
(* handle_http_request up to its one await (the pipe write): the record it *)
(* hands to the pipe, <<>> when the route writes nothing, and the body of  *)
(* the response it builds afterwards.  Collecting an iterator into a       *)
(* heapless::Vec past its capacity panics.                                 *)
(***************************************************************************)
Reply(body) == [panic |-> FALSE, write |-> <<>>, body |-> body]
WriteThenReply(record, body) == [panic |-> FALSE, write |-> record, body |-> body]
Panicked == [panic |-> TRUE, write |-> <<>>, body |-> ""]

ClearRecord == <<255, 255, 2>>

\* Mutant: a true state is sent as the byte 255.
PixelRecord_true_as_255(pixel_req) ==
    <<pixel_req.x, pixel_req.y, IF pixel_req.state THEN 255 ELSE 0>>

PixelRecord(pixel_req) ==
    <<pixel_req.x, pixel_req.y, IF pixel_req.state THEN 1 ELSE 0>>

route_pixel(request) ==
    LET json_body == extract_json_body(request) IN
    IF json_body # <<>>
    THEN LET pixel_req == parse_pixel_request(json_body[1]) IN
         IF pixel_req # <<>>
         THEN WriteThenReply(PixelRecord(pixel_req[1]), "OK")
         ELSE Reply("Invalid JSON")
    ELSE Reply("Missing JSON")

\* Mutant: the clear arm sends state byte 1 instead of the sentinel's 2.
route_match_wrong_sentinel(method, path, request) ==
    IF method = "OPTIONS" THEN Reply("")
    ELSE IF method = "POST" /\ path = "/pixel" THEN route_pixel(request)
    ELSE IF method = "POST" /\ path = "/clear"
         THEN WriteThenReply(<<255, 255, 1>>, "Cleared")
    ELSE IF method = "GET" /\ path = "/" THEN Reply("Doodle-RS Ready!")
    ELSE Reply("Not Found")

\* Mutant: the clear arm matches a POST on any path.
route_match_post_any(method, path, request) ==
    IF method = "OPTIONS" THEN Reply("")
    ELSE IF method = "POST" /\ path = "/pixel" THEN route_pixel(request)
    ELSE IF method = "POST" THEN WriteThenReply(ClearRecord, "Cleared")
    ELSE IF method = "GET" /\ path = "/" THEN Reply("Doodle-RS Ready!")
    ELSE Reply("Not Found")

route_match(method, path, request) ==
    IF method = "OPTIONS" THEN Reply("")
    ELSE IF method = "POST" /\ path = "/pixel" THEN route_pixel(request)
    ELSE IF method = "POST" /\ path = "/clear"
         THEN WriteThenReply(ClearRecord, "Cleared")
    ELSE IF method = "GET" /\ path = "/" THEN Reply("Doodle-RS Ready!")
    ELSE Reply("Not Found")

handle_http_request(request) ==
    LET ls == lines(request) IN
    IF Len(ls) > LinesCap THEN Panicked
    ELSE IF ls = <<>> THEN Reply("Bad Request")
    ELSE LET parts == split_whitespace(ls[1]) IN
         IF Len(parts) > PartsCap THEN Panicked
         ELSE IF Len(parts) < 2 THEN Reply("Bad Request")
         ELSE route_match(parts[1], parts[2], request)

\* core::str::from_utf8(..).unwrap_or("Invalid UTF-8") on the bytes read.
from_utf8(buf) == IF buf.utf8 THEN buf.text ELSE "Invalid UTF-8"

(***************************************************************************)
(* embassy_sync::pipe::Pipe<_, 64>, a ring buffer: data holds the bytes    *)
(* written and not yet read, start is the index of the oldest of them.  A  *)
(* write or a read moves at most the contiguous run up to the end of the   *)
(* buffer (or up to the other index), so it may move fewer bytes than      *)
(* asked for: the pipe promises only a nonzero amount.                     *)
(***************************************************************************)
Min(a, b) == IF a <= b THEN a ELSE b

EmptyPipe == [start |-> 0, data |-> <<>>]

PipeEnd(p) == (p.start + Len(p.data)) % PipeCap

is_full(p) == Len(p.data) = PipeCap

push_buf_len(p) ==
    IF is_full(p) THEN 0
    ELSE IF p.start <= PipeEnd(p) THEN PipeCap - PipeEnd(p)
    ELSE p.start - PipeEnd(p)

pop_buf_len(p) ==
    IF p.data = <<>> THEN 0
    ELSE IF PipeEnd(p) <= p.start THEN PipeCap - p.start
    ELSE PipeEnd(p) - p.start

\* Writer::write once the pipe is not full: the pipe after it.
pipe_write(p, buf) ==
    LET n == Min(push_buf_len(p), Len(buf)) IN
    [p EXCEPT !.data = @ \o SubSeq(buf, 1, n)]

\* Mutant: the read takes the newest bytes of the pipe, not the oldest.
try_read_newest(p, len) ==
    LET n == Min(pop_buf_len(p), len) IN
    [bytes |-> SubSeq(p.data, Len(p.data) - n + 1, Len(p.data)),
     pipe |-> [start |-> p.start,
               data |-> SubSeq(p.data, 1, Len(p.data) - n)]]

\* Mutant: the read takes every byte available, not at most len of them.
try_read_all_available(p, len) ==
    LET n == pop_buf_len(p) IN
    [bytes |-> SubSeq(p.data, 1, n),
     pipe |-> [start |-> (p.start + n) % PipeCap,
               data |-> SubSeq(p.data, n + 1, Len(p.data))]]

\* Reader::try_read into a buffer of len bytes: the bytes read (<<>> for
\* Err(Empty)) and the pipe after it.
try_read(p, len) ==
    LET n == Min(pop_buf_len(p), len) IN
    [bytes |-> SubSeq(p.data, 1, n),
     pipe |-> [start |-> (p.start + n) % PipeCap,
               data |-> SubSeq(p.data, n + 1, Len(p.data))]]

(***************************************************************************)
(* display_task.rs.  The canvas [[bool; 48]; 48] is the set of its true    *)
(* cells <<x, y>>; the display is the set of grid pixels lit at the last   *)
(* flush.                                                                  *)
(***************************************************************************)
ClearedCanvas == {}

Coords == 0 .. CANVAS_SIZE - 1

\* Mutant: the cell indexed [x][y] instead of [y][x].
update_canvas_transposed(drawing_canvas, bytes) ==
    IF Len(bytes) = 3
    THEN LET x == bytes[1]
             y == bytes[2]
             state == bytes[3]
         IN  IF x = 255 /\ y = 255 /\ state = 2
             THEN [canvas |-> ClearedCanvas, updated |-> TRUE]
             ELSE IF x < CANVAS_SIZE /\ y < CANVAS_SIZE
             THEN [canvas |-> IF state = 1
                              THEN drawing_canvas \cup {<<y, x>>}
                              ELSE drawing_canvas \ {<<y, x>>},
                   updated |-> TRUE]
             ELSE [canvas |-> drawing_canvas, updated |-> FALSE]
    ELSE [canvas |-> drawing_canvas, updated |-> FALSE]

\* Mutant: the bounds check covers x only.
update_canvas_unchecked_y(drawing_canvas, bytes) ==
    IF Len(bytes) = 3
    THEN LET x == bytes[1]
             y == bytes[2]
             state == bytes[3]
         IN  IF x = 255 /\ y = 255 /\ state = 2
             THEN [canvas |-> ClearedCanvas, updated |-> TRUE]
             ELSE IF x < CANVAS_SIZE
             THEN [canvas |-> IF state = 1
                              THEN drawing_canvas \cup {<<x, y>>}
                              ELSE drawing_canvas \ {<<x, y>>},
                   updated |-> TRUE]
             ELSE [canvas |-> drawing_canvas, updated |-> FALSE]
    ELSE [canvas |-> drawing_canvas, updated |-> FALSE]

\* Mutant: the clear loop stops after the first row.
update_canvas_clear_first_row(drawing_canvas, bytes) ==
    IF Len(bytes) = 3
    THEN LET x == bytes[1]
             y == bytes[2]
             state == bytes[3]
         IN  IF x = 255 /\ y = 255 /\ state = 2
             THEN [canvas |-> {c \in drawing_canvas : c[2] # 0}, updated |-> TRUE]
             ELSE IF x < CANVAS_SIZE /\ y < CANVAS_SIZE
             THEN [canvas |-> IF state = 1
                              THEN drawing_canvas \cup {<<x, y>>}
                              ELSE drawing_canvas \ {<<x, y>>},
                   updated |-> TRUE]
             ELSE [canvas |-> drawing_canvas, updated |-> FALSE]
    ELSE [canvas |-> drawing_canvas, updated |-> FALSE]

\* Mutant: the result of try_read is ignored and the zero-initialised buffer
\* is decoded whatever number of bytes was read into it.
update_canvas_unguarded(drawing_canvas, bytes) ==
    LET filled == [i \in 1 .. 3 |-> IF i <= Len(bytes) THEN bytes[i] ELSE 0]
        x == filled[1]
        y == filled[2]
        state == filled[3]
    IN  IF x = 255 /\ y = 255 /\ state = 2
        THEN [canvas |-> ClearedCanvas, updated |-> TRUE]
        ELSE IF x < CANVAS_SIZE /\ y < CANVAS_SIZE
        THEN [canvas |-> IF state = 1
                         THEN drawing_canvas \cup {<<x, y>>}
                         ELSE drawing_canvas \ {<<x, y>>},
              updated |-> TRUE]
        ELSE [canvas |-> drawing_canvas, updated |-> FALSE]

\* Mutant: the clear is recognised by its coordinates alone.
update_canvas_clear_any_state(drawing_canvas, bytes) ==
    IF Len(bytes) = 3
    THEN LET x == bytes[1]
             y == bytes[2]
             state == bytes[3]
         IN  IF x = 255 /\ y = 255
             THEN [canvas |-> ClearedCanvas, updated |-> TRUE]
             ELSE IF x < CANVAS_SIZE /\ y < CANVAS_SIZE
             THEN [canvas |-> IF state = 1
                              THEN drawing_canvas \cup {<<x, y>>}
                              ELSE drawing_canvas \ {<<x, y>>},
                   updated |-> TRUE]
             ELSE [canvas |-> drawing_canvas, updated |-> FALSE]
    ELSE [canvas |-> drawing_canvas, updated |-> FALSE]

\* update_canvas: the canvas after it and the flag it returns.
update_canvas(drawing_canvas, bytes) ==
    IF Len(bytes) = 3
    THEN LET x == bytes[1]
             y == bytes[2]
             state == bytes[3]
         IN  IF x = 255 /\ y = 255 /\ state = 2
             THEN [canvas |-> ClearedCanvas, updated |-> TRUE]
             ELSE IF x < CANVAS_SIZE /\ y < CANVAS_SIZE
             THEN [canvas |-> IF state = 1
                              THEN drawing_canvas \cup {<<x, y>>}
                              ELSE drawing_canvas \ {<<x, y>>},
                   updated |-> TRUE]
             ELSE [canvas |-> drawing_canvas, updated |-> FALSE]
    ELSE [canvas |-> drawing_canvas, updated |-> FALSE]

\* Mutant: the lower bound of the display taken as the grid's 48 rows.
draw_canvas_to_display_clip_at_48(drawing_canvas) ==
    {<<c[1], c[2] + DISPLAY_OFFSET_Y>> : c \in
        {d \in drawing_canvas :
            /\ d[1] < 128
            /\ d[2] + DISPLAY_OFFSET_Y < 48
            /\ d[2] + DISPLAY_OFFSET_Y >= DISPLAY_OFFSET_Y}}

draw_canvas_to_display(drawing_canvas) ==
    {<<c[1], c[2] + DISPLAY_OFFSET_Y>> : c \in
        {d \in drawing_canvas :
            /\ d[1] < 128
            /\ d[2] + DISPLAY_OFFSET_Y < 64
            /\ d[2] + DISPLAY_OFFSET_Y >= DISPLAY_OFFSET_Y}}

(***************************************************************************)
(* Bounds of the model, and the requests the clients send.                 *)
(***************************************************************************)
MaxConn == 3
MaxFloodConn == 23
MaxFloodPixel == 1
MaxBacklogConn == 2

RECURSIVE Decimal(_)
Decimal(n) ==
    IF n < 10 THEN DigitChar(n) ELSE Decimal(n \div 10) \o DigitChar(n % 10)

PixelJson(x, y, state) ==
    "{\"x\":" \o Decimal(x) \o ",\"y\":" \o Decimal(y) \o ",\"state\":"
        \o (IF state THEN "true" ELSE "false") \o "}"

RequestHead(method, path) ==
    method \o " " \o path \o " HTTP/1.1\r\nHost: pico\r\n\r\n"

PixelPost(json) == RequestHead("POST", "/pixel") \o json

\* <<x, y, state>> of the well-formed pixel requests.
SamplePixels == {<<10, 5, TRUE>>, <<10, 5, FALSE>>, <<0, 0, TRUE>>, <<47, 0, FALSE>>}

\* <<x, y, state>> with a coordinate outside the canvas or outside u8.
SampleOutOfRange == {<<60, 5, TRUE>>, <<5, 48, FALSE>>, <<256, 5, TRUE>>, <<255, 255, TRUE>>}

ValidPixelPosts == {PixelPost(PixelJson(p[1], p[2], p[3])) : p \in SamplePixels}

OutOfRangePosts == {PixelPost(PixelJson(p[1], p[2], p[3])) : p \in SampleOutOfRange}

\* A field is missing or its value does not parse.
MissingFieldPosts ==
    {PixelPost("{\"x\":10,\"y\":5}"),
     PixelPost("{\"y\":5,\"state\":true}"),
     PixelPost("{\"x\":10,\"y\":5,\"state\":1}"),
     PixelPost("{\"x\":-1,\"y\":5,\"state\":true}"),
     PixelPost("not json")}

\* No body after the blank line, or no blank line at all.
NoBodyPosts ==
    {RequestHead("POST", "/pixel"),
     RequestHead("POST", "/pixel") \o " \r\n",
     "POST /pixel HTTP/1.1\n\n" \o PixelJson(10, 5, TRUE)}

\* Not JSON, yet the scanner finds the three fields in it.
LenientPosts ==
    {PixelPost("{\"x\":10,\"y\":5,\"state\":true"),
     PixelPost("x: 0, y: +0, state: true")}

ClearPosts ==
    {RequestHead("POST", "/clear"), RequestHead("POST", "/clear") \o "{}"}

OptionsRequests ==
    {RequestHead("OPTIONS", "/pixel"), RequestHead("OPTIONS", "*"),
     RequestHead("OPTIONS", "/nowhere")}

StatusRequests == {RequestHead("GET", "/")}

UnknownRequests ==
    {RequestHead("GET", "/pixel"), RequestHead("PUT", "/pixel"),
     RequestHead("POST", "/"), RequestHead("DELETE", "/clear"),
     RequestHead("post", "/clear"), RequestHead("GET", "/index.html")}

\* The opening handshake the web client's WebSocket::new("ws://<pico>:80/ws")
\* sends as the first request of its connection.
UpgradeRequests ==
    {"GET /ws HTTP/1.1\r\nHost: pico\r\nUpgrade: websocket\r\nConnection: Upgrade\r\n"
        \o "Sec-WebSocket-Key: dGhlIHNhbXBsZSBub25jZQ==\r\nSec-WebSocket-Version: 13\r\n\r\n"}

\* A request line of fewer than two tokens.
ShortRequests == {"GET", "\r\n", "GET\r\nHost: pico\r\n\r\n"}

\* A request line of more than PartsCap tokens.
LongRequests == {"GET / a b c d e f g\r\n\r\n"}

RECURSIVE Repeat(_, _)
Repeat(s, n) == IF n = 0 THEN "" ELSE s \o Repeat(s, n - 1)

\* A request of more than LinesCap lines: the request line and LinesCap headers.
ManyLineRequests == {"GET / HTTP/1.1\r\n" \o Repeat("A: b\r\n", LinesCap)}

Texts ==
    ValidPixelPosts \cup OutOfRangePosts \cup MissingFieldPosts \cup NoBodyPosts
        \cup LenientPosts \cup ClearPosts \cup OptionsRequests \cup StatusRequests
        \cup UnknownRequests \cup ShortRequests \cup LongRequests
        \cup ManyLineRequests \cup UpgradeRequests

\* What socket.read leaves in request_buffer: text, or bytes that are not UTF-8.
Buffers == {[utf8 |-> TRUE, text |-> t] : t \in Texts} \cup {[utf8 |-> FALSE, text |-> ""]}

\* The bitwise exclusive or of two bytes.
RECURSIVE Xor(_, _)
Xor(a, b) ==
    IF a = 0 /\ b = 0 THEN 0
    ELSE ((a + b) % 2) + 2 * Xor(a \div 2, b \div 2)

MaskKey == <<55, 250, 33, 61>>

\* The payloads the web client sends in binary frames: a clear and a pixel as
\* the 3-byte record, and the 4-byte messages of send_clear_via_websocket and
\* send_pixel_via_websocket; an empty payload.
FramePayloads ==
    {ClearRecord, <<10, 5, 1>>, <<255, 255, 2, 255>>, <<10, 5, 1, 7>>, <<>>}

\* The bytes of a client's binary frame: FIN and opcode 2, the mask bit and
\* the length, the masking key, the payload masked with it.
Frame(payload) ==
    <<128 + 2, 128 + Len(payload)>> \o MaskKey
        \o [i \in 1 .. Len(payload) |-> Xor(payload[i], MaskKey[((i - 1) % 4) + 1])]

\* What socket.read leaves in request_buffer when a frame arrives: its first
\* byte, 0x82, cannot begin a UTF-8 sequence.
FrameBuffers ==
    {[utf8 |-> FALSE, text |-> "", payload |-> p, bytes |-> Frame(p)] : p \in FramePayloads}

\* handle_http_request and the response it builds, on each request the model
\* sends: computed once, since neither reads the state.
\* The well-formed pixel request of every cell of the canvas and either state.
WirePixels == Coords \X Coords \X BOOLEAN
WireBuffer(p) == [utf8 |-> TRUE, text |-> PixelPost(PixelJson(p[1], p[2], p[3]))]
WireBuffers == {WireBuffer(p) : p \in WirePixels}

Requests == {from_utf8(buf) : buf \in Buffers \cup WireBuffers}
Handled == [t \in Requests |-> handle_http_request(t)]
Built == [t \in Requests |-> build_simple_response(Handled[t].body)]

FloodClears == {[utf8 |-> TRUE, text |-> t] : t \in ClearPosts}
FloodPixels ==
    {[utf8 |-> TRUE, text |-> PixelPost(PixelJson(p[1], p[2], p[3]))] :
        p \in {<<10, 5, TRUE>>}}

(***************************************************************************)
(* The state.  netPc is the await the network task is suspended at:        *)
(* "start" (before connect_wifi), "join", "join_backoff", "wait_link_up",  *)
(* "wait_config_up", "gpio_set" (inside connect_wifi), then "accept",      *)
(* "accept_delay", "read", "pipe_write" (inside handle_http_request),      *)
(* "write" (the response loop), "close"; "panicked" once the firmware has  *)
(* halted.  link is how far the bring-up of the interface has come and led *)
(* the state of the status LED.  open_sockets counts the connections       *)
(* accepted and not yet closed.                                            *)
(* pipe_writes logs the buffers handed to Writer::write while the current   *)
(* request is handled; pending is the one a suspended write still holds.   *)
(* in_flight lists, oldest first, the records handed to Writer::write      *)
(* after the one the render task decoded last.                             *)
(* buffer holds the bytes the last try_read of update_canvas returned;      *)
(* flushed tells whether the last iteration of the render loop cleared,    *)
(* redrew and flushed the display.                                         *)
(* nConn and nPixel count the connections accepted and the pixel records   *)
(* written, for the bounds.  sent holds the bytes socket.write has taken on *)
(* the current connection.                                                 *)
(*                                                                         *)
(* The web client: pixel_grid is the set of cells drawn on the page,       *)
(* PENDING_PIXELS the map of updates waiting for the queue processor (one  *)
(* update per cell), pixels_to_send what is left of the batch the          *)
(* processor took, procPc the await the processor is suspended at          *)
(* ("timer", or "gap" inside a batch), clear_tasks the clear tasks spawned *)
(* and not yet run.  posted lists the commands posted to the device, oldest first. *)
(* epoch counts the presses of Clear; every update and every clear command *)
(* carries the epoch it was made in, so that an update older than a clear  *)
(* can be told from a later one of the same cell.  nDraw counts the cells  *)
(* drawn, for the bound.  PIXEL_QUEUE of lib.rs is never pushed to and is  *)
(* left out.                                                               *)
(***************************************************************************)
VARIABLES netPc, link, led, request, response, pipe_writes, pending, written, sent,
          open_sockets, pipe, in_flight, canvas, buffer, canvas_updated,
          flushed, display, nConn, nPixel,
          pixel_grid, PENDING_PIXELS, pixels_to_send, procPc, clear_tasks,
          posted, epoch, nDraw

linkVars == <<link, led>>
connVars ==
    <<request, response, pipe_writes, pending, written, sent, open_sockets, nConn, nPixel>>
chanVars == <<pipe, in_flight>>
netVars == <<netPc, linkVars, connVars>>
renderVars == <<canvas, buffer, canvas_updated, flushed, display>>
webVars ==
    <<pixel_grid, PENDING_PIXELS, pixels_to_send, procPc, clear_tasks, posted, epoch, nDraw>>

vars == <<netVars, chanVars, renderVars, webVars>>

\* The web client as mounted: an empty grid, nothing pending, the queue
\* processor waiting for its first interval.
WebIdle ==
    /\ pixel_grid = {}
    /\ PENDING_PIXELS = {}
    /\ pixels_to_send = {}
    /\ procPc = "timer"
    /\ clear_tasks = <<>>
    /\ posted = <<>>
    /\ epoch = 0
    /\ nDraw = 0

LinkStates == <<"Disconnected", "Joining", "LinkUp", "AddressAssigned">>

Init ==
    /\ netPc = "start"
    /\ link = "Disconnected"
    /\ led = FALSE
    /\ request = ""
    /\ response = ""
    /\ pipe_writes = <<>>
    /\ pending = <<>>
    /\ written = 0
    /\ sent = ""
    /\ open_sockets = 0
    /\ pipe = EmptyPipe
    /\ in_flight = <<>>
    /\ canvas = ClearedCanvas
    /\ buffer = <<>>
    /\ canvas_updated = FALSE
    /\ flushed = FALSE
    /\ display = {}
    /\ nConn = 0
    /\ nPixel = 0
    /\ WebIdle

(***************************************************************************)
(* connect_wifi: one action per await.                                     *)
(***************************************************************************)
\* The join call is made: the first time, and again after each backoff.
JoinStart ==
    /\ netPc = "start"
    /\ netPc' = "join"
    /\ link' = "Joining"
    /\ UNCHANGED <<led, connVars, chanVars, renderVars, webVars>>

\* join returns Err: warn, then wait 5 s.
JoinFail ==
    /\ netPc = "join"
    /\ netPc' = "join_backoff"
    /\ UNCHANGED <<linkVars, connVars, chanVars, renderVars, webVars>>

\* Mutant: after the backoff the task gives up instead of joining again.
JoinBackoff_gives_up ==
    /\ netPc = "join_backoff"
    /\ netPc' = "panicked"
    /\ UNCHANGED <<linkVars, connVars, chanVars, renderVars, webVars>>

\* The 5 s timer fires: the loop calls join again.
JoinBackoff ==
    /\ netPc = "join_backoff"
    /\ netPc' = "join"
    /\ UNCHANGED <<linkVars, connVars, chanVars, renderVars, webVars>>

\* Mutant: after the join the two waits are skipped.
JoinOk_no_wait ==
    /\ netPc = "join"
    /\ netPc' = "gpio_set"
    /\ UNCHANGED <<linkVars, connVars, chanVars, renderVars, webVars>>

\* join returns Ok: break, then wait_link_up.
JoinOk ==
    /\ netPc = "join"
    /\ netPc' = "wait_link_up"
    /\ UNCHANGED <<linkVars, connVars, chanVars, renderVars, webVars>>

\* wait_link_up returns.
LinkUp ==
    /\ netPc = "wait_link_up"
    /\ netPc' = "wait_config_up"
    /\ link' = "LinkUp"
    /\ UNCHANGED <<led, connVars, chanVars, renderVars, webVars>>

\* wait_config_up returns.
ConfigUp ==
    /\ netPc = "wait_config_up"
    /\ netPc' = "gpio_set"
    /\ link' = "AddressAssigned"
    /\ UNCHANGED <<led, connVars, chanVars, renderVars, webVars>>

\* gpio_set(0, true) returns: connect_wifi is over and the server loop starts.
GpioSet ==
    /\ netPc = "gpio_set"
    /\ netPc' = "accept"
    /\ led' = TRUE
    /\ UNCHANGED <<link, connVars, chanVars, renderVars, webVars>>

(***************************************************************************)
(* networking_task: one action per await of the server loop.               *)
(***************************************************************************)
\* socket.accept(80) returns Ok.
Accept ==
    /\ netPc = "accept"
    /\ netPc' = "read"
    /\ nConn' = nConn + 1
    /\ open_sockets' = open_sockets + 1
    /\ UNCHANGED <<linkVars, request, response, pipe_writes, pending, written, sent, nPixel,
                   chanVars, renderVars, webVars>>

\* socket.accept(80) returns Err (the 500 ms timeout): wait 100 us.
AcceptErr ==
    /\ netPc = "accept"
    /\ netPc' = "accept_delay"
    /\ UNCHANGED <<linkVars, connVars, chanVars, renderVars, webVars>>

\* The 100 us timer fires: the loop accepts again.
AcceptRetry ==
    /\ netPc = "accept_delay"
    /\ netPc' = "accept"
    /\ UNCHANGED <<linkVars, connVars, chanVars, renderVars, webVars>>

\* socket.read returns Ok(n), n > 0: the request is decoded and handled up to
\* the response, or up to the pipe write when the pipe is full.
ReadRequest(buf) ==
    /\ netPc = "read"
    /\ request' = from_utf8(buf)
    /\ LET h == Handled[request'] IN
       IF h.panic
       THEN /\ netPc' = "panicked"
            /\ UNCHANGED <<response, pipe_writes, pending, nPixel, chanVars>>
       ELSE IF h.write = <<>>
       THEN /\ netPc' = "write"
            /\ response' = Built[request']
            /\ UNCHANGED <<pipe_writes, pending, nPixel, chanVars>>
       ELSE /\ pipe_writes' = Append(pipe_writes, h.write)
            /\ in_flight' = Append(in_flight, h.write)
            /\ nPixel' = IF h.write = ClearRecord THEN nPixel ELSE nPixel + 1
            /\ IF is_full(pipe)
               THEN /\ netPc' = "pipe_write"
                    /\ pending' = h.write
                    /\ UNCHANGED <<response, pipe>>
               ELSE /\ netPc' = "write"
                    /\ pipe' = pipe_write(pipe, h.write)
                    /\ response' = Built[request']
                    /\ UNCHANGED pending
    /\ UNCHANGED <<linkVars, written, sent, open_sockets, nConn, renderVars, webVars>>

\* The body the handler replies with once its suspended write has completed:
\* the clear arm is the one that writes the sentinel, the pixel arm any other
\* record.
body_after_write(record) == IF record = ClearRecord THEN "Cleared" ELSE "OK"

\* The pipe write, suspended on a full pipe, completes once a read made room.
PipeWriteResume ==
    /\ netPc = "pipe_write"
    /\ ~is_full(pipe)
    /\ pipe' = pipe_write(pipe, pending)
    /\ pending' = <<>>
    /\ response' = build_simple_response(body_after_write(pending))
    /\ netPc' = "write"
    /\ UNCHANGED <<linkVars, request, pipe_writes, written, sent, open_sockets, nConn, nPixel,
                   in_flight, renderVars, webVars>>

\* socket.read returns Ok(0).
ReadEmpty ==
    /\ netPc = "read"
    /\ netPc' = "close"
    /\ UNCHANGED <<linkVars, connVars, chanVars, renderVars, webVars>>

\* Mutant: a failed read goes straight to the next iteration, past the close.
ReadErr_continue ==
    /\ netPc = "read"
    /\ netPc' = "accept"
    /\ UNCHANGED <<linkVars, connVars, chanVars, renderVars, webVars>>

\* socket.read returns Err (a reset, or the 500 ms timeout).
ReadErr ==
    /\ netPc = "read"
    /\ netPc' = "close"
    /\ UNCHANGED <<linkVars, connVars, chanVars, renderVars, webVars>>

\* Mutant: after the response the connection is kept and read again.
SocketWrite_keep_alive ==
    /\ netPc = "write"
    /\ written' = Len(response)
    /\ sent' = sent \o SubSeq(response, written + 1, Len(response))
    /\ netPc' = "read"
    /\ UNCHANGED <<linkVars, request, response, pipe_writes, pending, open_sockets, nConn,
                   nPixel, chanVars, renderVars, webVars>>

\* socket.write takes the whole response (it fits the 4096-byte tx buffer), then flush.
SocketWrite ==
    /\ netPc = "write"
    /\ written' = Len(response)
    /\ sent' = sent \o SubSeq(response, written + 1, Len(response))
    /\ netPc' = "close"
    /\ UNCHANGED <<linkVars, request, response, pipe_writes, pending, open_sockets, nConn,
                   nPixel, chanVars, renderVars, webVars>>

\* Mutant: every write is handed the response from its first byte.
SocketWriteSome_from_start(n) ==
    /\ netPc = "write"
    /\ n \in 1 .. Len(response) - written
    /\ written' = written + n
    /\ sent' = sent \o SubSeq(response, 1, n)
    /\ netPc' = IF written' < Len(response) THEN "write" ELSE "close"
    /\ UNCHANGED <<linkVars, request, response, pipe_writes, pending, open_sockets, nConn,
                   nPixel, chanVars, renderVars, webVars>>

\* One iteration of the write loop in which socket.write returns Ok(n), n > 0:
\* it took the first n bytes of response_bytes[written..].  The loop goes on
\* while written < response_bytes.len(), then the flush.
SocketWriteSome(n) ==
    /\ netPc = "write"
    /\ n \in 1 .. Len(response) - written
    /\ written' = written + n
    /\ sent' = sent \o SubSeq(response, written + 1, written + n)
    /\ netPc' = IF written' < Len(response) THEN "write" ELSE "close"
    /\ UNCHANGED <<linkVars, request, response, pipe_writes, pending, open_sockets, nConn,
                   nPixel, chanVars, renderVars, webVars>>

\* Mutant: a failed socket.write is unwrapped, which halts the firmware.
SocketWriteErr_unwrapped ==
    /\ netPc = "write"
    /\ netPc' = "panicked"
    /\ UNCHANGED <<linkVars, connVars, chanVars, renderVars, webVars>>

\* socket.write returns Err or Ok(0): the loop breaks.
SocketWriteErr ==
    /\ netPc = "write"
    /\ netPc' = "close"
    /\ UNCHANGED <<linkVars, connVars, chanVars, renderVars, webVars>>

\* socket.close(), then the 1 ms delay before the next accept.
Close ==
    /\ netPc = "close"
    /\ netPc' = "accept"
    /\ open_sockets' = open_sockets - 1
    /\ request' = ""
    /\ response' = ""
    /\ pipe_writes' = <<>>
    /\ written' = 0
    /\ sent' = ""
    /\ UNCHANGED <<linkVars, pending, nConn, nPixel, chanVars, renderVars, webVars>>

(***************************************************************************)
(* display_task: one iteration of its loop, from update_canvas to the      *)
(* 10 ms timer (nothing in between awaits).                                *)
(***************************************************************************)
\* What is left of the produced records once the render task has decoded
\* record: those handed to the pipe after the first one equal to it.
after_decoding(produced, record) ==
    LET at == {i \in 1 .. Len(produced) : produced[i] = record} IN
    IF at = {} THEN produced
    ELSE SubSeq(produced, (CHOOSE i \in at : \A j \in at : i <= j) + 1, Len(produced))

\* Mutant: the display is cleared, redrawn and flushed on every iteration.
RenderTick_always_redraws ==
    /\ netPc # "panicked"
    /\ LET r == try_read(pipe, 3)
           u == update_canvas(canvas, r.bytes)
       IN  /\ pipe' = r.pipe
           /\ buffer' = r.bytes
           /\ in_flight' = IF Len(r.bytes) = 3 THEN after_decoding(in_flight, r.bytes)
                           ELSE in_flight
           /\ canvas' = u.canvas
           /\ canvas_updated' = u.updated
           /\ flushed' = TRUE
           /\ display' = draw_canvas_to_display(u.canvas)
    /\ UNCHANGED <<netVars, webVars>>

RenderTick ==
    /\ netPc # "panicked"
    /\ LET r == try_read(pipe, 3)
           u == update_canvas(canvas, r.bytes)
       IN  /\ pipe' = r.pipe
           /\ buffer' = r.bytes
           /\ in_flight' = IF Len(r.bytes) = 3 THEN after_decoding(in_flight, r.bytes)
                           ELSE in_flight
           /\ canvas' = u.canvas
           /\ canvas_updated' = u.updated
           /\ flushed' = u.updated
           /\ display' = IF u.updated THEN draw_canvas_to_display(u.canvas) ELSE display
    /\ UNCHANGED <<netVars, webVars>>

(***************************************************************************)
(* Spec: the bring-up, then any request on each of at most MaxConn         *)
(* connections.  The pipe cannot fill within MaxConn records, so the       *)
(* suspended pipe write is left to SpecFlood.                              *)
(***************************************************************************)
BringUp ==
    \/ JoinStart
    \/ JoinFail
    \/ JoinBackoff
    \/ JoinOk
    \/ LinkUp
    \/ ConfigUp
    \/ GpioSet

Next ==
    \/ BringUp
    \/ nConn < MaxConn /\ Accept
    \/ AcceptErr
    \/ AcceptRetry
    \/ \E buf \in Buffers : ReadRequest(buf)
    \/ \E buf \in FrameBuffers : ReadRequest(buf)
    \/ ReadEmpty
    \/ ReadErr
    \/ SocketWrite
    \/ SocketWriteErr
    \/ Close
    \/ RenderTick

Spec == Init /\ [][Next]_vars

\* The steps of the network task that wait for no client: a timer that was
\* set fires, the link comes up and the address is assigned once the join has
\* succeeded, a suspended pipe write goes on once there is room, a response
\* that was built is written or fails to be, the socket is closed.  The task
\* is at one await at a time, so at most one of them is enabled.
NetStep ==
    \/ JoinStart
    \/ JoinBackoff
    \/ LinkUp
    \/ ConfigUp
    \/ GpioSet
    \/ AcceptRetry
    \/ PipeWriteResume
    \/ SocketWrite
    \/ SocketWriteErr
    \/ Close

\* The executor polls a task whose await is ready.  Nothing is assumed of the
\* clients, of the outcome of a join, or of the render task.
NetFairness == WF_vars(NetStep)

SpecLive == Spec /\ NetFairness

\* Mutant: no timeout is set on the socket, so a read may stay pending.
ReadTimeout_unset == WF_vars(ReadErr /\ open_sockets = 0)

\* socket.set_timeout(Some(500 ms)): a read on which the peer stays silent
\* that long ends with an error.
ReadTimeout == WF_vars(ReadErr)

\* SpecTimeout: Spec with the network task scheduled fairly and the socket
\* timeout running.
SpecTimeout == Spec /\ NetFairness /\ ReadTimeout

(***************************************************************************)
(* SpecFlood: up to MaxFloodConn connections that each post a clear or (at *)
(* most MaxFloodPixel of them) a pixel, enough to fill the pipe and to     *)
(* wrap its ring buffer.                                                   *)
(***************************************************************************)
NextFlood ==
    \/ JoinStart
    \/ JoinOk
    \/ LinkUp
    \/ ConfigUp
    \/ GpioSet
    \/ nConn < MaxFloodConn /\ Accept
    \/ \E buf \in FloodClears : ReadRequest(buf)
    \/ \E buf \in FloodPixels : nPixel < MaxFloodPixel /\ ReadRequest(buf)
    \/ PipeWriteResume
    \/ SocketWrite
    \/ Close
    \/ RenderTick

SpecFlood == Init /\ [][NextFlood]_vars

(***************************************************************************)
(* SpecBacklog: the server once BacklogRecords clears have been posted and *)
(* none drained, so that the pipe is full (the last of them left one byte  *)
(* at ring index 63), then up to MaxBacklogConn more connections.  The     *)
(* network task is scheduled fairly; the render task may never run.        *)
(***************************************************************************)
BacklogRecords == (PipeCap + 2) \div 3

RECURSIVE Writes(_, _)
Writes(p, records) ==
    IF records = <<>> THEN p ELSE Writes(pipe_write(p, Head(records)), Tail(records))

Backlog == [i \in 1 .. BacklogRecords |-> ClearRecord]

InitBacklog ==
    /\ netPc = "accept"
    /\ link = "AddressAssigned"
    /\ led = TRUE
    /\ request = ""
    /\ response = ""
    /\ pipe_writes = <<>>
    /\ pending = <<>>
    /\ written = 0
    /\ sent = ""
    /\ open_sockets = 0
    /\ pipe = Writes(EmptyPipe, Backlog)
    /\ in_flight = Backlog
    /\ canvas = ClearedCanvas
    /\ buffer = <<>>
    /\ canvas_updated = FALSE
    /\ flushed = FALSE
    /\ display = {}
    /\ nConn = 0
    /\ nPixel = 0
    /\ WebIdle

NextBacklog ==
    \/ nConn < MaxBacklogConn /\ Accept
    \/ \E buf \in FloodClears \cup FloodPixels : ReadRequest(buf)
    \/ PipeWriteResume
    \/ SocketWrite
    \/ Close
    \/ RenderTick

SpecBacklog == InitBacklog /\ [][NextBacklog]_vars /\ NetFairness

(***************************************************************************)
(* SpecCanvas: update_canvas as a function of the canvas and of the bytes  *)
(* in the pipe, on records the network task itself never writes as well.   *)
(***************************************************************************)
SampleBytes == {0, 1, 2, 47, 48, 255}
SampleRecords == {<<a, b, c>> : a, b, c \in SampleBytes}
SampleCanvases == {ClearedCanvas, {<<0, 0>>}, {<<47, 1>>, <<0, 47>>, <<2, 2>>}}
SampleStarts == {0, 30, 63}

\* One record in the pipe, or a record and the clear sentinel behind it.
SampleStreams ==
    {<<r>> : r \in SampleRecords}
        \cup {<<r, ClearRecord>> : r \in {ClearRecord, <<0, 0, 1>>, <<47, 1, 0>>}}

StreamBytes(records) ==
    IF Len(records) = 1 THEN records[1] ELSE records[1] \o records[2]

InitCanvas ==
    /\ netPc = "accept"
    /\ link = "AddressAssigned"
    /\ led = TRUE
    /\ request = ""
    /\ response = ""
    /\ pipe_writes = <<>>
    /\ pending = <<>>
    /\ written = 0
    /\ sent = ""
    /\ open_sockets = 0
    /\ \E s \in SampleStarts, records \in SampleStreams :
          /\ pipe = [start |-> s, data |-> StreamBytes(records)]
          /\ in_flight = records
    /\ canvas \in SampleCanvases
    /\ buffer = <<>>
    /\ canvas_updated = FALSE
    /\ flushed = FALSE
    /\ display = draw_canvas_to_display(canvas)
    /\ nConn = 0
    /\ nPixel = 0
    /\ WebIdle

NextCanvas == RenderTick

SpecCanvas == InitCanvas /\ [][NextCanvas]_vars

(***************************************************************************)
(* SpecWire: one connection that posts the pixel of any cell in either     *)
(* state, on a clear canvas or on one where that cell alone is set, and    *)
(* the render task draining the record.                                    *)
(***************************************************************************)
OneCellCanvases == {{c} : c \in Coords \X Coords}

InitWire ==
    /\ netPc = "read"
    /\ link = "AddressAssigned"
    /\ led = TRUE
    /\ request = ""
    /\ response = ""
    /\ pipe_writes = <<>>
    /\ pending = <<>>
    /\ written = 0
    /\ sent = ""
    /\ open_sockets = 1
    /\ pipe = EmptyPipe
    /\ in_flight = <<>>
    /\ canvas \in {ClearedCanvas} \cup OneCellCanvases
    /\ buffer = <<>>
    /\ canvas_updated = FALSE
    /\ flushed = FALSE
    /\ display = draw_canvas_to_display(canvas)
    /\ nConn = 1
    /\ nPixel = 0
    /\ WebIdle

NextWire ==
    \/ /\ netPc = "read"
       /\ \E p \in IF canvas = ClearedCanvas THEN WirePixels
                   ELSE {<<c[1], c[2], state>> : c \in canvas, state \in BOOLEAN} :
             ReadRequest(WireBuffer(p))
    \/ SocketWrite
    \/ Close
    \/ RenderTick

SpecWire == InitWire /\ [][NextWire]_vars

(***************************************************************************)
(* SpecSentinel: the decoder of the network task and the decoder of the    *)
(* render task side by side: one connection that posts a pixel (in range   *)
(* or not, the coordinates 255, 255 among them) or a clear, and the render *)
(* task draining any sample record, then the record that was posted.       *)
(***************************************************************************)
SentinelBuffers ==
    {[utf8 |-> TRUE, text |-> t] : t \in ValidPixelPosts \cup OutOfRangePosts \cup ClearPosts}

InitSentinel ==
    /\ netPc = "read"
    /\ link = "AddressAssigned"
    /\ led = TRUE
    /\ request = ""
    /\ response = ""
    /\ pipe_writes = <<>>
    /\ pending = <<>>
    /\ written = 0
    /\ sent = ""
    /\ open_sockets = 1
    /\ \E r \in SampleRecords :
          /\ pipe = [start |-> 0, data |-> r]
          /\ in_flight = <<r>>
    /\ canvas \in SampleCanvases
    /\ buffer = <<>>
    /\ canvas_updated = FALSE
    /\ flushed = FALSE
    /\ display = draw_canvas_to_display(canvas)
    /\ nConn = 1
    /\ nPixel = 0
    /\ WebIdle

NextSentinel ==
    \/ \E buf \in SentinelBuffers : ReadRequest(buf)
    \/ SocketWrite
    \/ Close
    \/ RenderTick

SpecSentinel == InitSentinel /\ [][NextSentinel]_vars

(***************************************************************************)
(* SpecWriteLoop: one connection whose response the socket takes in pieces *)
(* of any of the sizes WriteChunks, or all that is left at once, and may   *)
(* refuse at any point.                                                    *)
(***************************************************************************)
WriteChunks == {1, 2, 100}

WriteLoopBuffers ==
    {[utf8 |-> TRUE, text |-> t] : t \in StatusRequests \cup ClearPosts \cup UnknownRequests}

InitWriteLoop ==
    /\ netPc = "read"
    /\ link = "AddressAssigned"
    /\ led = TRUE
    /\ request = ""
    /\ response = ""
    /\ pipe_writes = <<>>
    /\ pending = <<>>
    /\ written = 0
    /\ sent = ""
    /\ open_sockets = 1
    /\ pipe = EmptyPipe
    /\ in_flight = <<>>
    /\ canvas = ClearedCanvas
    /\ buffer = <<>>
    /\ canvas_updated = FALSE
    /\ flushed = FALSE
    /\ display = {}
    /\ nConn = 1
    /\ nPixel = 0
    /\ WebIdle

NextWriteLoop ==
    \/ \E buf \in WriteLoopBuffers : ReadRequest(buf)
    \/ \E n \in WriteChunks \cup {Len(response) - written} : SocketWriteSome(n)
    \/ SocketWriteErr
    \/ Close
    \/ RenderTick

SpecWriteLoop == InitWriteLoop /\ [][NextWriteLoop]_vars

(***************************************************************************)
(* lib.rs of the web client: drawing, the clear handler and the queue      *)
(* processor, one action per handler and per stretch between two awaits.   *)
(***************************************************************************)
MAX_BATCH_SIZE == 2048
MaxDraw == 3
MaxClear == 2
DrawCells == {<<10, 5>>, <<0, 0>>}

PixelUpdate(coord, state, e) == [kind |-> "pixel", coord |-> coord, state |-> state, epoch |-> e]
ClearCommand(e) == [kind |-> "clear", epoch |-> e]

\* pending.insert(coord, state): the latest state of the cell replaces the
\* one waiting.
queue_pixel_update(pending_pixels, coord, state, e) ==
    {u \in pending_pixels : u.coord # coord} \cup {PixelUpdate(coord, state, e)}

\* A mouse-down, or a mouse-move while drawing, on a cell of the grid.
draw_pixel(coord) ==
    /\ nDraw < MaxDraw
    /\ nDraw' = nDraw + 1
    /\ pixel_grid' = pixel_grid \cup {coord}
    /\ PENDING_PIXELS' = queue_pixel_update(PENDING_PIXELS, coord, TRUE, epoch)
    /\ UNCHANGED <<pixels_to_send, procPc, clear_tasks, posted, epoch>>
    /\ UNCHANGED <<netVars, chanVars, renderVars>>

\* The Clear button: the grid and the pending map are emptied
\* (clear_pixel_queue) and the task that posts the clear is spawned.
clear_canvas ==
    /\ epoch < MaxClear
    /\ epoch' = epoch + 1
    /\ pixel_grid' = {}
    /\ PENDING_PIXELS' = {}
    /\ clear_tasks' = Append(clear_tasks, ClearCommand(epoch + 1))
    /\ UNCHANGED <<pixels_to_send, procPc, posted, nDraw>>
    /\ UNCHANGED <<netVars, chanVars, renderVars>>

\* The oldest spawned clear task runs: POST /clear.
send_clear_to_pico ==
    /\ clear_tasks # <<>>
    /\ posted' = Append(posted, Head(clear_tasks))
    /\ clear_tasks' = Tail(clear_tasks)
    /\ UNCHANGED <<pixel_grid, PENDING_PIXELS, pixels_to_send, procPc, epoch, nDraw>>
    /\ UNCHANGED <<netVars, chanVars, renderVars>>

\* The interval of the processor has passed: up to MAX_BATCH_SIZE updates,
\* in the order the map yields them, leave the pending map for the batch,
\* and the first of them is posted (POST /pixel) before the task is
\* suspended again.
ProcessorTake ==
    /\ procPc = "timer"
    /\ \E batch \in SUBSET PENDING_PIXELS :
          /\ Cardinality(batch) = Min(Cardinality(PENDING_PIXELS), MAX_BATCH_SIZE)
          /\ PENDING_PIXELS' = PENDING_PIXELS \ batch
          /\ IF batch = {}
             THEN /\ pixels_to_send' = {}
                  /\ posted' = posted
                  /\ procPc' = "timer"
             ELSE \E u \in batch :
                  /\ pixels_to_send' = batch \ {u}
                  /\ posted' = Append(posted, u)
                  /\ procPc' = "gap"
    /\ UNCHANGED <<pixel_grid, clear_tasks, epoch, nDraw>>
    /\ UNCHANGED <<netVars, chanVars, renderVars>>

\* The post has been answered and the 5 ms after it have passed: the next
\* update of the batch is posted, or the batch is done and the processor
\* waits for its interval.
ProcessorNext ==
    /\ procPc = "gap"
    /\ IF pixels_to_send = {}
       THEN /\ procPc' = "timer"
            /\ UNCHANGED <<pixels_to_send, posted>>
       ELSE \E u \in pixels_to_send :
            /\ pixels_to_send' = pixels_to_send \ {u}
            /\ posted' = Append(posted, u)
            /\ procPc' = "gap"
    /\ UNCHANGED <<pixel_grid, PENDING_PIXELS, clear_tasks, epoch, nDraw>>
    /\ UNCHANGED <<netVars, chanVars, renderVars>>

(***************************************************************************)
(* SpecWeb: the web client alone, drawing at most MaxDraw cells and        *)
(* pressing Clear at most MaxClear times, with the device idle.            *)
(***************************************************************************)
InitWeb ==
    /\ netPc = "accept"
    /\ link = "AddressAssigned"
    /\ led = TRUE
    /\ request = ""
    /\ response = ""
    /\ pipe_writes = <<>>
    /\ pending = <<>>
    /\ written = 0
    /\ sent = ""
    /\ open_sockets = 0
    /\ pipe = EmptyPipe
    /\ in_flight = <<>>
    /\ canvas = ClearedCanvas
    /\ buffer = <<>>
    /\ canvas_updated = FALSE
    /\ flushed = FALSE
    /\ display = {}
    /\ nConn = 0
    /\ nPixel = 0
    /\ WebIdle

NextWeb ==
    \/ \E coord \in DrawCells : draw_pixel(coord)
    \/ clear_canvas
    \/ send_clear_to_pico
    \/ ProcessorTake
    \/ ProcessorNext

SpecWeb == InitWeb /\ [][NextWeb]_vars

(***************************************************************************)
(* Observers of a response, as an HTTP client reads it.                    *)
(***************************************************************************)
ResponseStatus(resp) == SubSeq(resp, 1, find(resp, "\r\n") - 1)

\* The header lines, each between two "\r\n".
ResponseHeaders(resp) == SubSeq(resp, find(resp, "\r\n"), find(resp, "\r\n\r\n") + 1)

HasHeader(resp, line) == find(ResponseHeaders(resp), "\r\n" \o line \o "\r\n") # 0

HeaderValue(resp, name) ==
    LET hs == ResponseHeaders(resp)
        at == find(hs, "\r\n" \o name \o ": ")
        rest == SubSeq(hs, at + Len(name) + 4, Len(hs))
    IN  SubSeq(rest, 1, find(rest, "\r\n") - 1)

HasBlankLine(resp) == find(resp, "\r\n\r\n") # 0

ResponseBody(resp) == SubSeq(resp, find(resp, "\r\n\r\n") + 4, Len(resp))

Ok200(resp, body) ==
    /\ ResponseStatus(resp) = "HTTP/1.1 200 OK"
    /\ HasBlankLine(resp)
    /\ ResponseBody(resp) = body

Cell(cv, x, y) == <<x, y>> \in cv


(***************************************************************************)
(* The claims.                                                             *)
(***************************************************************************)

C2_DecodeFailureIs400 ==
    (request \in OutOfRangePosts \cup MissingFieldPosts \cup LenientPosts /\ response # "")
        => ResponseStatus(response) = "HTTP/1.1 400 Bad Request"

\* C3: handling a POST /pixel that fails decoding (no body after the blank
\* line, a field missing or unparsable, x >= 48 or y >= 48) performs no pipe
\* write and leaves the pipe as it was.
C3_DecodeFailureWritesNothing ==
    [][(netPc = "read" /\ request' \in OutOfRangePosts \cup MissingFieldPosts \cup NoBodyPosts)
        => (pipe' = pipe /\ pipe_writes' = <<>> /\ netPc' = "write")]_vars

C3_Witness ==
    /\ netPc = "write"
    /\ request = PixelPost(PixelJson(60, 5, TRUE))
    /\ pipe_writes = <<>>
    /\ pipe.data # <<>>

\* C4: a POST /clear, with or without a body, is answered 200 "Cleared", and
\* handling it performs exactly one pipe write, of the bytes [255, 255, 2].
C4_ClearPostWritesSentinel ==
    request \in ClearPosts =>
        /\ netPc \in {"pipe_write", "write", "close"}
        /\ pipe_writes = << <<255, 255, 2>> >>
        /\ netPc = "pipe_write" => pending = pipe_writes[1]
        /\ netPc # "pipe_write" => Ok200(response, "Cleared")

C4_Witness ==
    /\ netPc = "write"
    /\ request = RequestHead("POST", "/clear") \o "{}"
    /\ pipe_writes = << <<255, 255, 2>> >>
    /\ ResponseBody(response) = "Cleared"

\* C5 (as claimed): a request whose method and path match no route is answered
\* with the status line 404 Not Found.
C5_UnknownRouteIs404 ==
    (request \in UnknownRequests /\ response # "")
        => ResponseStatus(response) = "HTTP/1.1 404 Not Found"

\* C6: OPTIONS on any path is answered 200 with an empty body and GET / is
\* answered 200 with the readiness banner; handling either of them, an
\* unmatched route or a request line of fewer than two tokens writes nothing
\* to the pipe.
C6_NoWriteRoutes ==
    [][(/\ netPc = "read"
        /\ request' \in OptionsRequests \cup StatusRequests \cup UnknownRequests
                            \cup ShortRequests \cup {"Invalid UTF-8"})
        => (/\ pipe' = pipe
            /\ pipe_writes' = <<>>
            /\ netPc' = "write"
            /\ request' \in OptionsRequests => Ok200(response', "")
            /\ request' \in StatusRequests => Ok200(response', "Doodle-RS Ready!"))]_vars

C6_Witness ==
    /\ netPc = "write"
    /\ request = RequestHead("OPTIONS", "/nowhere")
    /\ Ok200(response, "")
    /\ pipe_writes = <<>>
    /\ pipe.data # <<>>

\* C7: every response the server builds, on every route and on every error
\* path, carries the header Access-Control-Allow-Origin: *.
C7_EveryResponseAllowsAnyOrigin ==
    response # "" => HasHeader(response, "Access-Control-Allow-Origin: *")

C7_Witness ==
    /\ netPc = "write"
    /\ request \in MissingFieldPosts
    /\ ResponseBody(response) = "Invalid JSON"
    /\ HasHeader(response, "Access-Control-Allow-Origin: *")

\* C8: in every response, the Content-Length value is the decimal form, without
\* leading zeros, of the length of the body handed to build_simple_response,
\* and the bytes after the blank line are exactly that body.
C8_ContentLengthIsBodyLength ==
    response # "" =>
        /\ HasBlankLine(response)
        /\ ResponseBody(response) = Handled[request].body
        /\ HeaderValue(response, "Content-Length") = Decimal(Len(ResponseBody(response)))

C8_Witness ==
    /\ netPc = "write"
    /\ ResponseBody(response) = "Doodle-RS Ready!"
    /\ HeaderValue(response, "Content-Length") = "16"

\* C9: when the render task drains a record [x, y, state] with x, y < 48 and
\* state 0 or 1 on a cleared canvas, afterwards canvas[y][x] is (state = 1) and
\* every other cell is still false.
C9_PixelOnClearedCanvas ==
    [][LET b == try_read(pipe, 3).bytes IN
       (/\ RenderTick
        /\ canvas = ClearedCanvas
        /\ Len(b) = 3
        /\ b[1] \in Coords /\ b[2] \in Coords /\ b[3] \in {0, 1})
        => (/\ canvas' \subseteq Coords \X Coords
            /\ \A cx \in Coords, cy \in Coords :
                  Cell(canvas', cx, cy) = (cx = b[1] /\ cy = b[2] /\ b[3] = 1))]_vars

C9_Witness ==
    /\ buffer = <<10, 5, 1>>
    /\ canvas = {<<10, 5>>}
    /\ canvas_updated

\* C10: draining a record with x >= 48 or y >= 48 that is not the clear
\* sentinel [255, 255, 2] leaves every canvas cell unchanged, and the drain
\* step reports no update.
C10_OutOfRangeRecordIgnored ==
    [][LET b == try_read(pipe, 3).bytes IN
       (/\ RenderTick
        /\ Len(b) = 3
        /\ (b[1] >= CANVAS_SIZE \/ b[2] >= CANVAS_SIZE)
        /\ b # ClearRecord)
        => (/\ canvas' = canvas
            /\ canvas_updated' = FALSE
            /\ display' = display)]_vars

C10_Witness ==
    /\ buffer = <<0, 48, 1>>
    /\ canvas = {<<0, 0>>}
    /\ ~canvas_updated

\* C11: draining the clear sentinel [255, 255, 2] leaves every one of the
\* 48 x 48 cells false whatever the canvas held, reports an update and blanks
\* the grid on the display; draining it again, or on a canvas that is already
\* clear, gives that same canvas.
C11_ClearResetsEveryCell ==
    [][LET b == try_read(pipe, 3).bytes IN
       (RenderTick /\ b = ClearRecord)
        => (/\ \A cx \in Coords, cy \in Coords : ~Cell(canvas', cx, cy)
            /\ canvas' = ClearedCanvas
            /\ canvas = ClearedCanvas => canvas' = canvas
            /\ update_canvas(canvas', ClearRecord).canvas = canvas'
            /\ canvas_updated'
            /\ display' = {})]_vars

\* The second of two sentinels has been drained.
C11_Witness ==
    /\ buffer = ClearRecord
    /\ canvas = ClearedCanvas
    /\ canvas_updated
    /\ pipe = [start |-> 6, data |-> <<>>]
    /\ in_flight = <<>>

\* C12: for every x, y in 0..47 and either state, the record the network task
\* writes for the request {"x":x,"y":y,"state":state} is read back by the
\* render task as three bytes that decode (x = byte 0, y = byte 1, state =
\* (byte 2 = 1)) to the same x, y and state, and it is applied to that cell
\* alone.
C12_WireRoundTrip ==
    [][(RenderTick /\ request # "" /\ pipe.data # <<>>)
        => (/\ Len(buffer') = 3
            /\ buffer'[1] \in Coords
            /\ buffer'[2] \in Coords
            /\ request = PixelPost(PixelJson(buffer'[1], buffer'[2], buffer'[3] = 1))
            /\ Cell(canvas', buffer'[1], buffer'[2]) = (buffer'[3] = 1)
            /\ canvas' \ {<<buffer'[1], buffer'[2]>>} = canvas \ {<<buffer'[1], buffer'[2]>>}
            /\ canvas_updated')]_vars

\* The far corner, written as false and drained.
C12_Witness ==
    /\ request = PixelPost(PixelJson(47, 47, FALSE))
    /\ buffer = <<47, 47, 0>>
    /\ canvas = ClearedCanvas
    /\ canvas_updated

\* C13 (as claimed): when handling a request hands a record to the pipe while
\* the pipe is full, the record is dropped (the pipe is left as it was) and
\* the network task goes on to its response; it never waits for the render
\* task to make room.
C13_FullPipeWriteIsDropped ==
    [][(netPc = "read" /\ is_full(pipe) /\ pipe_writes' # pipe_writes)
        => (/\ netPc' = "write"
            /\ response' = Built[request']
            /\ pipe' = pipe)]_vars

\* C14: whatever the interleaving of writes and reads, each record the render
\* task decodes (a read of three bytes) is one the network task handed to the
\* pipe after the record decoded before it: the decoded records are a
\* subsequence, in order, of the produced ones, none duplicated or invented.
C14_DecodedInProducerOrder ==
    [][LET b == try_read(pipe, 3).bytes IN
       (RenderTick /\ Len(b) = 3)
        => (/\ buffer' = b
            /\ \E i \in 1 .. Len(in_flight) :
                  /\ in_flight[i] = b
                  /\ \A j \in 1 .. i - 1 : in_flight[j] # b
                  /\ in_flight' = SubSeq(in_flight, i + 1, Len(in_flight)))]_vars

\* The pixel posted as the 23rd record, whose write waited on the full pipe,
\* has been decoded after the ring buffer wrapped.
C14_Witness ==
    /\ nConn = 23
    /\ nPixel = 1
    /\ buffer = <<10, 5, 1>>
    /\ pipe = [start |-> 3, data |-> <<>>]
    /\ in_flight = <<>>

\* C15 (as claimed): when handling a request hands a record to the pipe while
\* the pipe is at capacity, the oldest record in the pipe is dropped to make
\* room, the new record is kept behind the others, and the network task goes
\* on to its response.
C15_FullPipeDropsOldest ==
    [][(netPc = "read" /\ is_full(pipe) /\ pipe_writes' # pipe_writes)
        => (/\ netPc' = "write"
            /\ pipe'.data = SubSeq(pipe.data, 4, Len(pipe.data)) \o pipe_writes'[1])]_vars

\* C16 (as claimed): once a non-empty request has been read on a connection,
\* the whole response is eventually written, and the socket is then closed
\* and the server accepts again, whatever was posted before and whether or
\* not the render task drains the pipe.
C16_EveryRequestIsAnswered ==
    /\ (request # "") ~> (netPc = "close" /\ response # "" /\ written = Len(response))
    /\ (request # "") ~> (netPc = "accept" /\ open_sockets = 0)

\* The states right after an error: an accept that failed, a read that failed
\* or returned no bytes, a response that was not written in full.
AfterAcceptError == netPc = "accept_delay"
AfterReadError == netPc = "close" /\ request = ""
AfterWriteError == netPc = "close" /\ response # "" /\ written < Len(response)

\* C17: an accept error, a read error, an empty read and a write error each
\* end the handling of the current connection only: none halts the task or
\* touches the pipe, the step that follows leads back to the accept, and the
\* accept is reached again.
C17_ErrorsAreConnectionLocal ==
    /\ [][/\ AcceptErr => (netPc' = "accept_delay" /\ open_sockets' = 0)
          /\ (ReadErr \/ ReadEmpty \/ SocketWriteErr) => netPc' = "close"
          /\ (AcceptErr \/ ReadErr \/ ReadEmpty \/ SocketWriteErr)
                => (pipe' = pipe /\ pipe_writes' = pipe_writes)
          /\ (netPc \in {"accept_delay", "close"} /\ netPc' # netPc)
                => netPc' = "accept"]_vars
    /\ AfterAcceptError ~> (netPc = "accept")
    /\ AfterReadError ~> (netPc = "accept" /\ open_sockets = 0)
    /\ AfterWriteError ~> (netPc = "accept" /\ open_sockets = 0)

\* The response to a pixel request was not written.
C17_Witness ==
    /\ AfterWriteError
    /\ written = 0
    /\ request \in ValidPixelPosts
    /\ pipe_writes # <<>>

\* C18: at most one connection is open at any time: none while the task
\* brings the link up, accepts or waits to accept again (every connection
\* accepted earlier has been closed, whichever path it took), and exactly one
\* from the accept to the close.
C18_OneConnectionAtATime ==
    /\ open_sockets \in {0, 1}
    /\ netPc \in {"accept", "accept_delay"} => open_sockets = 0
    /\ netPc \in {"read", "pipe_write", "write", "close"} => open_sockets = 1
    /\ open_sockets = 1 => nConn > 0

\* A third connection is being read after the first two were closed.
C18_Witness ==
    /\ nConn = 3
    /\ netPc = "read"
    /\ open_sockets = 1

\* The place of a link state in the order of LinkStates.
LinkRank(l) == CHOOSE i \in 1 .. Len(LinkStates) : LinkStates[i] = l

\* The awaits of the server loop.
ServerLoop == {"accept", "accept_delay", "read", "pipe_write", "write", "close"}

\* C19: the link state moves only forward, one state at a time, through
\* Disconnected, Joining, LinkUp, AddressAssigned; a failed join leaves it in
\* Joining; the server loop (and so any accept) is entered only with the
\* address assigned; the LED is switched on only with the address assigned.
C19_LinkBringUpOrder ==
    [][/\ LinkRank(link') \in {LinkRank(link), LinkRank(link) + 1}
       /\ JoinFail => (link = "Joining" /\ link' = "Joining")
       /\ netPc' \in ServerLoop => link' = "AddressAssigned"
       /\ Accept => (link = "AddressAssigned" /\ led)
       /\ led' => link' = "AddressAssigned"
       /\ (led' /\ ~led) => link = "AddressAssigned"]_vars

\* The first connection has been accepted, the link is configured, the LED on.
C19_Witness ==
    /\ netPc = "read"
    /\ nConn = 1
    /\ link = "AddressAssigned"
    /\ led

\* C20: a failed join only leads to the backoff wait, and the backoff wait
\* only, and always, to another join attempt, however many attempts have
\* failed before; no step of the bring-up halts the task.  Once a join has
\* succeeded, bring-up completes and the server loop starts.
C20_JoinRetriedUntilSuccess ==
    /\ [][/\ JoinFail => netPc' = "join_backoff"
          /\ (netPc = "join_backoff" /\ netPc' # netPc) => netPc' = "join"
          /\ netPc \notin ServerLoop => netPc' # "panicked"]_vars
    /\ (netPc = "join_backoff") ~> (netPc = "join")
    /\ (netPc = "wait_link_up") ~> (netPc = "accept" /\ link = "AddressAssigned" /\ led)

\* A join attempt has failed and the task waits to try again.
C20_Witness ==
    /\ netPc = "join_backoff"
    /\ link = "Joining"
    /\ ~led
    /\ nConn = 0

\* C21 (as claimed): no client input is fatal: whatever bytes a read returns
\* (any number of lines, any number of tokens in the request line, UTF-8 or
\* not), handling them leads to a response; the network task never panics or
\* halts on a request.
C21_NoClientInputIsFatal ==
    /\ netPc # "panicked"
    /\ request # "" => netPc \in {"pipe_write", "write", "close"}

\* C22 (as claimed): when the first request of a connection carries the
\* WebSocket upgrade header set (Upgrade, Connection, Sec-WebSocket-Key), the
\* server replies with a 101 handshake response, and the connection is then
\* open for frames: it is not answered as a one-shot HTTP request and closed.
C22_UpgradeOpensPersistentConnection ==
    [][/\ (netPc = "read" /\ request' \in UpgradeRequests)
            => ResponseStatus(response') = "HTTP/1.1 101 Switching Protocols"
       /\ request \in UpgradeRequests
            => (netPc' # "close" /\ open_sockets' = open_sockets)]_vars

\* C23 (as claimed): a binary frame whose payload is [255, 255, 2] results in
\* a full-canvas clear (the clear record is handed to the pipe, from where it
\* drains to the clear); a frame whose payload length is not 3, such as the
\* 4-byte [x, y, state, digit] and [255, 255, 2, 255] of the web client, is
\* dropped: nothing is handed to the pipe and the connection goes on reading.
C23_FrameClearsOrIsDropped ==
    [][\A buf \in FrameBuffers :
          ReadRequest(buf) =>
              /\ buf.payload = ClearRecord
                    => (/\ pipe_writes' = <<ClearRecord>>
                        /\ in_flight' = Append(in_flight, ClearRecord))
              /\ Len(buf.payload) # 3
                    => (/\ pipe_writes' = pipe_writes
                        /\ pipe' = pipe
                        /\ netPc' = "read"
                        /\ open_sockets' = open_sockets)]_vars

\* C24 (as claimed): the render task runs for the lifetime of the device, so
\* that, the network task being scheduled fairly, every record the network
\* task has handed to the pipe is eventually read by the render task and
\* applied to the canvas: no produced record stays undecoded for ever.
C24_EveryCommandIsApplied ==
    (in_flight # <<>>) ~> (in_flight = <<>> /\ Len(buffer) = 3 /\ canvas_updated)

\* C25: the canvas changes only in a step of the render task that pops a
\* record of three bytes from the pipe: every step of the network task
\* (bring-up, accept, read and route, pipe write, response write, close)
\* leaves every cell as it was, and so does a render tick that finds the
\* pipe empty, which leaves the pipe as it was too.
C25_CanvasChangesOnlyOnPop ==
    [][/\ canvas' # canvas => (RenderTick /\ Len(try_read(pipe, 3).bytes) = 3)
       /\ netVars' # netVars => canvas' = canvas
       /\ (RenderTick /\ pipe.data = <<>>) => (canvas' = canvas /\ pipe' = pipe)]_vars

\* A second connection is being closed after the render task set a cell and
\* then found the pipe empty.
C25_Witness ==
    /\ canvas = {<<0, 0>>}
    /\ buffer = <<>>
    /\ pipe.data = <<>>
    /\ netPc = "close"
    /\ nConn = 2

\* C26 (as claimed): the pipe only ever holds whole records: the number of
\* bytes in it is a multiple of 3, a write deposits all 3 bytes of its record
\* or none, and a read of the render task that returns data returns exactly
\* 3 bytes, whatever the interleaving of writes and reads.
C26_PipeHoldsWholeRecords ==
    [][/\ Len(pipe'.data) % 3 = 0
       /\ netVars' # netVars => Len(pipe'.data) - Len(pipe.data) \in {0, 3}
       /\ RenderTick => (/\ Len(buffer') \in {0, 3}
                         /\ Len(pipe.data) - Len(pipe'.data) = Len(buffer'))]_vars

\* C27: in an iteration of the render loop the display is cleared, redrawn
\* from the canvas and flushed if and only if the drain step of that
\* iteration applied the clear sentinel or a pixel record with x, y < 48; an
\* iteration that found the pipe empty, read fewer than three bytes or read
\* out-of-range coordinates writes nothing to the display.
C27_RedrawOnlyWhenUpdated ==
    [][RenderTick =>
          LET b == try_read(pipe, 3).bytes
              applied == /\ Len(b) = 3
                         /\ \/ b = ClearRecord
                            \/ (b[1] < CANVAS_SIZE /\ b[2] < CANVAS_SIZE)
          IN  /\ canvas_updated' = applied
              /\ flushed' = applied
              /\ flushed' => display' = draw_canvas_to_display(canvas')
              /\ ~flushed' => display' = display]_vars

\* One byte was read at the end of the ring buffer: nothing was redrawn.
C27_Witness ==
    /\ Len(buffer) = 1
    /\ ~flushed
    /\ ~canvas_updated
    /\ canvas = {<<0, 0>>}
    /\ display = {<<0, DISPLAY_OFFSET_Y>>}

\* C28: the drain step never waits and takes at most one record per tick: it
\* can always run; on an empty pipe it reports no update, reads nothing and
\* leaves the canvas and the pipe as they were; on a non-empty pipe it
\* removes at least one and at most three bytes, the oldest ones, and leaves
\* the rest in place.
C28_DrainIsNonBlockingOneRecord ==
    /\ [](netPc # "panicked" => ENABLED RenderTick)
    /\ [][RenderTick =>
            /\ pipe.data = <<>>
                  => (/\ buffer' = <<>>
                      /\ ~canvas_updated'
                      /\ canvas' = canvas
                      /\ pipe' = pipe)
            /\ pipe.data # <<>>
                  => (/\ Len(buffer') \in 1 .. 3
                      /\ pipe.data = buffer' \o pipe'.data)]_vars

\* Two records were drained by two ticks, and a third tick found the pipe
\* empty.
C28_Witness ==
    /\ in_flight = <<>>
    /\ pipe = [start |-> 6, data |-> <<>>]
    /\ buffer = <<>>
    /\ ~canvas_updated
    /\ canvas = ClearedCanvas

C30_ClearAndPixelNeverConfused ==
    [][/\ (netPc = "read" /\ netPc' # "read")
            => (/\ (pipe_writes' = <<ClearRecord>>) = (request' \in ClearPosts)
                /\ (request' \notin ClearPosts /\ pipe_writes' # <<>>)
                      => (/\ pipe_writes'[1][1] < CANVAS_SIZE
                          /\ pipe_writes'[1][2] < CANVAS_SIZE
                          /\ pipe_writes'[1][3] \in {0, 1}))
       /\ LET b == try_read(pipe, 3).bytes IN
          (RenderTick /\ Len(b) = 3)
            => (/\ b = ClearRecord => (canvas' = ClearedCanvas /\ canvas_updated')
                /\ b # ClearRecord
                      => canvas' \ {<<b[1], b[2]>>} = canvas \ {<<b[1], b[2]>>}
                /\ Cardinality(canvas) > 1
                      => ((canvas' = ClearedCanvas) = (b = ClearRecord))
                /\ (b[1] = 255 /\ b[2] = 255 /\ b[3] # 2)
                      => (canvas' = canvas /\ ~canvas_updated'))]_vars

\* The pixel request for (255, 255) was refused, and the record [255, 255, 1]
\* was drained without touching a canvas of three cells.
C30_Witness ==
    /\ netPc = "write"
    /\ request = PixelPost(PixelJson(255, 255, TRUE))
    /\ pipe_writes = <<>>
    /\ buffer = <<255, 255, 1>>
    /\ canvas = {<<47, 1>>, <<0, 47>>, <<2, 2>>}
    /\ ~canvas_updated

\* C31: on each accepted connection the server reads once, handles at most
\* one request, builds at most one response and hands at most one record to
\* the pipe, then closes: the read is reached only from the accept, with
\* nothing of an earlier request left; whatever the read returns, the task
\* leaves the read for good; the response is followed by the close alone.  A
\* POST /pixel whose body has not arrived with the headers is answered as it
\* stands, without a second read.
C31_OneRequestPerConnection ==
    [][/\ Len(pipe_writes') <= 1
       /\ (netPc' = "read" /\ netPc # "read")
            => (/\ netPc = "accept"
                /\ nConn' = nConn + 1
                /\ request' = "" /\ response' = "" /\ pipe_writes' = <<>>)
       /\ request' # request => (netPc = "read" /\ request = "") \/ request' = ""
       /\ response' # response => response = "" \/ (netPc = "close" /\ response' = "")
       /\ (netPc \in {"pipe_write", "write"} /\ netPc' # netPc)
            => netPc' \in {"write", "close"}
       /\ (netPc = "close" /\ netPc' # netPc)
            => (netPc' = "accept" /\ open_sockets' = 0)
       /\ (netPc = "read" /\ request' \in NoBodyPosts)
            => (netPc' = "write" /\ pipe_writes' = <<>>
                    /\ ResponseBody(response') = "Missing JSON")]_vars

\* The second connection sent the headers of a pixel request without the
\* body; the reply was written and the socket is about to be closed.
C31_Witness ==
    /\ nConn = 2
    /\ netPc = "close"
    /\ request = RequestHead("POST", "/pixel")
    /\ ResponseBody(response) = "Missing JSON"
    /\ written = Len(response)
    /\ pipe_writes = <<>>

\* C32: the response write loop terminates whatever socket.write returns:
\* each iteration either adds n > 0 to written, which never exceeds the
\* length of the response, and goes on only while bytes are left, or leaves
\* the loop (a write of zero bytes, an error) with written as it was.  The
\* bytes the socket has taken are at every point the first written bytes of
\* the response, in order and each once: the whole response when no write
\* failed.
C32_WriteLoopTerminates ==
    [][/\ written' <= Len(response')
       /\ sent' = SubSeq(response', 1, written')
       /\ (netPc = "write" /\ netVars' # netVars)
            => \/ /\ written' > written
                  /\ netPc' = (IF written' < Len(response) THEN "write" ELSE "close")
               \/ /\ written' = written
                  /\ netPc' = "close"
       /\ (netPc = "write" /\ netPc' = "close" /\ written' > written)
            => sent' = response]_vars

\* The response to GET / is being written: the socket has taken pieces of
\* 100, 2 and 1 bytes, and the loop goes on with what is left.
C32_Witness ==
    /\ netPc = "write"
    /\ request = RequestHead("GET", "/")
    /\ written = 103
    /\ written < Len(response)
    /\ sent = SubSeq(response, 1, 103)

\* C33: a client that connects and stays silent cannot hold the connection
\* for ever: a pending read on which no request arrives ends (with the
\* timeout error at the latest), an ended read without a request leads to
\* the close alone, and the server is then back at the accept with no socket
\* open.
C33_SilentClientTimesOut ==
    /\ (netPc = "read") ~> ((netPc = "accept" /\ open_sockets = 0) \/ request # "")
    /\ [][ReadErr => (netPc' = "close" /\ request' = "" /\ pipe' = pipe)]_vars
    /\ (netPc = "close" /\ request = "") ~> (netPc = "accept" /\ open_sockets = 0)

\* The read of the second connection ended without a request; the socket is
\* about to be closed.
C33_Witness ==
    /\ netPc = "close"
    /\ request = ""
    /\ response = ""
    /\ open_sockets = 1
    /\ nConn = 2

\* C34: a redraw lights display pixel (x, y + 16) for every true cell (x, y)
\* of the canvas and nothing else; each of the 48x48 cells maps inside the
\* 128x64 display, so none is clipped, and no pixel of rows 0..15 is lit by
\* the grid draw.
C34_GridDrawnBelowBanner ==
    /\ flushed => /\ display = {<<c[1], c[2] + 16>> : c \in canvas}
                  /\ Cardinality(display) = Cardinality(canvas)
    /\ display \subseteq (0 .. 127) \X (16 .. 63)
    /\ \A x, y \in Coords : draw_canvas_to_display({<<x, y>>}) = {<<x, y + 16>>}

\* A redraw has lit the bottom row of the display from the bottom row of
\* the grid.
C34_Witness ==
    /\ flushed
    /\ <<47, 47>> \in canvas
    /\ <<0, 47>> \in canvas
    /\ <<47, 63>> \in display
    /\ <<0, 63>> \in display

\* C35: in the HTTP web client a clear wins over earlier drawing: no pixel
\* update made before a press of Clear is posted to the device after the
\* clear command of that press, whatever the interleaving of the queue
\* processor (a batch it has already taken included) and the clear handler.
C35_ClearWinsOverEarlierPixels ==
    \A i, j \in 1 .. Len(posted) :
        (i < j /\ posted[i].kind = "clear" /\ posted[j].kind = "pixel")
            => posted[j].epoch >= posted[i].epoch

====
